---- MODULE Spec2Model ----
(***************************************************************************)
(* Model of the Slack event-relay bridge of the Continue CLI:              *)
(*   webhook.ts          verifySlackSignature, handleSlackWebhook,         *)
(*                       isDirectMessage, isBotMentioned,                  *)
(*                       extractMessageText                                *)
(*   slackIntegration.ts SlackIntegration.handleEvent, pollAndSendResults  *)
(*   client.ts           SlackClient.postMessage / updateMessage /         *)
(*                       postEphemeral                                     *)
(*                                                                         *)
(* JavaScript runs the handlers on one event loop: a handler runs without  *)
(* interruption from one `await` to the next.  Every action below is one   *)
(* such run-to-completion segment; the outcome of the awaited call (a      *)
(* Slack or backend response) is the action's input.                       *)
(*                                                                         *)
(* Strings the code inspects character by character (message texts, the    *)
(* timestamp header) are tuples of one-character strings.                  *)
(***************************************************************************)
EXTENDS Integers, Sequences, FiniteSets, TLC

VARIABLES
    processingMessages, \* SlackIntegration.processingMessages: Set<string>
    req,                \* per delivery: the HTTP request it carries
    pc,                 \* per delivery: where its handleEvent call stands
    http,               \* per delivery: the HTTP responses sent, in order
    ack,                \* per delivery: ackResponse of the acknowledgment post
    out,                \* per delivery: the outbound calls made for it so far
    pollInterval,       \* per delivery: its setInterval timer is scheduled
    polls,              \* per delivery: pollAndSendResults' `polls`
    lastMessageCount,   \* per delivery: pollAndSendResults' `lastMessageCount`
    exit,               \* per delivery: the way its handleEvent call ended
    ticks,              \* per delivery: tick callbacks suspended at an await
    history,            \* the backend's history (GET /state .history)
    vin,                \* arguments of a function called on its own
                        \* (verifySlackSignature, a SlackClient method, ...)
    vout                \* its outcome

vars == <<processingMessages, req, pc, http, ack, out, pollInterval, polls,
          lastMessageCount, exit, ticks, history, vin, vout>>

bridgeVars == <<processingMessages, req, pc, http, ack, out, pollInterval,
                polls, lastMessageCount, exit, ticks, history>>

-----------------------------------------------------------------------------
(* Bounds of the model *)

\* deliveries (HTTP requests) the endpoint receives
NumDeliveries == 2
\* entries the backend history may grow to
MaxHistory == 2
\* tick callbacks of one session that may be suspended at an await at once
MaxInFlight == 2
\* stands for `maxPolls = 300`: ticks a session is allowed before it times out
maxPolls == 2
\* timer firings in one run, over all sessions
MaxTicks == 3

\* fragments a text passed to extractMessageText is made of
MaxPieces == 4

Deliveries == 1..NumDeliveries

-----------------------------------------------------------------------------
(* webhook.ts: verifySlackSignature *)

\* the replay window, in seconds
ReplayWindow == 300
\* length of a hex-encoded SHA-256 digest
HexDigestLen == 64
\* length of the prefix "v0="
PrefixLen == 3

Digits == {"0", "1", "2", "3", "4", "5", "6", "7", "8", "9"}

DigitVal(c) ==
    CASE c = "0" -> 0 [] c = "1" -> 1 [] c = "2" -> 2 [] c = "3" -> 3
      [] c = "4" -> 4 [] c = "5" -> 5 [] c = "6" -> 6 [] c = "7" -> 7
      [] c = "8" -> 8 [] c = "9" -> 9

RECURSIVE ParseDigits(_, _, _)
ParseDigits(s, i, acc) ==
    IF i > Len(s) \/ s[i] \notin Digits
    THEN acc
    ELSE ParseDigits(s, i + 1, acc * 10 + DigitVal(s[i]))

\* parseInt(timestamp, 10): the leading decimal digits, NaN when there are none
parseInt(s) ==
    IF s = <<>> \/ s[1] \notin Digits
    THEN [nan |-> TRUE, val |-> 0]
    ELSE [nan |-> FALSE, val |-> ParseDigits(s, 1, 0)]

Abs(n) == IF n < 0 THEN -n ELSE n

\* a check that looks at old timestamps only, as its comment "Reject old
\* requests" reads
OutsideWindowOneSided(time, timestamp) ==
    LET t == parseInt(timestamp)
    IN  ~t.nan /\ time - t.val > ReplayWindow

\* Math.abs(time - timestampNum) > 300; every comparison with NaN is false
OutsideWindow(time, timestamp) ==
    LET t == parseInt(timestamp)
    IN  ~t.nan /\ Abs(time - t.val) > ReplayWindow

\* crypto.createHmac("sha256", secret).update("v0:ts:body").digest("hex"):
\* HMAC-SHA256 as an ideal keyed function, injective in key and message, whose
\* hex digest has HexDigestLen characters
mySignature(signingSecret, timestamp, body) ==
    [present |-> TRUE, len |-> PrefixLen + HexDigestLen,
     mac |-> [kind |-> "hmac", key |-> signingSecret, ts |-> timestamp,
              body |-> body]]

\* a comparison of the lengths alone
SameLength(a, b) == [threw |-> FALSE, value |-> (a.len = b.len)]

\* crypto.timingSafeEqual(a, b): throws RangeError when the byte lengths
\* differ, otherwise tells whether the contents are equal
timingSafeEqual(a, b) ==
    IF a.len # b.len
    THEN [threw |-> TRUE, value |-> FALSE]
    ELSE [threw |-> FALSE, value |-> (a.mac = b.mac)]

verifySlackSignature(signingSecret, requestSignature, timestamp, body, time) ==
    IF OutsideWindow(time, timestamp)
    THEN [threw |-> FALSE, value |-> FALSE]
    ELSE timingSafeEqual(mySignature(signingSecret, timestamp, body),
                         requestSignature)

\* What the sender (Slack) puts in X-Slack-Signature for a request it signs
\* with `secret`: "v0=" + hex(HMAC-SHA256(secret, "v0:" + ts + ":" + body))
SlackSigns(secret, timestamp, body) ==
    [present |-> TRUE, len |-> PrefixLen + HexDigestLen,
     mac |-> [kind |-> "hmac", key |-> secret, ts |-> timestamp, body |-> body]]

\* Inputs of the signature check
Secrets == {"s1", "s2"}
Bodies == {"b1", "b2"}
Times == {1000}
Now == CHOOSE t \in Times : TRUE
TimestampHeaders ==
    { <<"6", "9", "9">>, <<"7", "0", "0">>, <<"1", "0", "0", "0">>,
      <<"1", "3", "0", "0">>, <<"1", "3", "0", "1">>,
      <<"1", "0", "0", "0", "s">>, <<"x">> }

NoMac == [kind |-> "other", key |-> "", ts |-> <<>>, body |-> ""]
\* a header that is absent (or the empty string: both are falsy)
MissingSignature == [present |-> FALSE, len |-> 0, mac |-> NoMac]
\* "v0=" followed by 64 hex characters that are no HMAC of the request
ForgedSignature ==
    [present |-> TRUE, len |-> PrefixLen + HexDigestLen, mac |-> NoMac]
\* a signature of another length, e.g. "v0=abc"
ShortSignature == [present |-> TRUE, len |-> PrefixLen + 3, mac |-> NoMac]
LongSignature ==
    [present |-> TRUE, len |-> PrefixLen + HexDigestLen + 1, mac |-> NoMac]

Signatures ==
    { SlackSigns(s, t, b) : s \in Secrets, t \in TimestampHeaders, b \in Bodies }
      \cup {ForgedSignature, ShortSignature, LongSignature}

VerifyInputs ==
    [secret : Secrets, sig : Signatures, ts : TimestampHeaders,
     body : Bodies, time : Times]

NoVerifyInput ==
    [secret |-> "s1", sig |-> MissingSignature, ts |-> <<>>, body |-> "b1",
     time |-> 0]
Pending == [state |-> "pending", value |-> FALSE]

\* one call of verifySlackSignature
Verify ==
    /\ vout.state = "pending"
    /\ vin # NoVerifyInput
    /\ LET r == verifySlackSignature(vin.secret, vin.sig, vin.ts, vin.body,
                                     vin.time)
       IN  vout' = [state |-> IF r.threw THEN "threw" ELSE "returned",
                    value |-> r.value]
    /\ UNCHANGED <<vin, bridgeVars>>

-----------------------------------------------------------------------------
(* webhook.ts: isDirectMessage, isBotMentioned, extractMessageText *)

\* SlackIntegrationConfig
signingSecret == "s1"
botUserId == "B"

\* `<@${botUserId}>`
MentionToken(userId) == <<"<", "@", userId, ">">>

StartsAt(text, tok, i) ==
    /\ i + Len(tok) - 1 <= Len(text)
    /\ SubSeq(text, i, i + Len(tok) - 1) = tok

\* String.prototype.includes
includes(text, tok) == \E i \in 1..Len(text) : StartsAt(text, tok, i)

\* text.replace(new RegExp(tok, "g"), ""): one left-to-right pass that drops
\* every match and resumes after it
RECURSIVE removeAll(_, _, _)
removeAll(text, tok, i) ==
    IF i > Len(text) THEN <<>>
    ELSE IF StartsAt(text, tok, i) THEN removeAll(text, tok, i + Len(tok))
    ELSE <<text[i]>> \o removeAll(text, tok, i + 1)

\* String.prototype.trim, for the whitespace the model's texts use
RECURSIVE trim(_)
trim(text) ==
    IF text = <<>> THEN text
    ELSE IF Head(text) = " " THEN trim(Tail(text))
    ELSE IF text[Len(text)] = " " THEN trim(SubSeq(text, 1, Len(text) - 1))
    ELSE text

isDirectMessage(event) == event.channel_type = "im"

isBotMentioned(text, userId) == includes(text, MentionToken(userId))

extractMessageText(text, userId) ==
    trim(removeAll(text, MentionToken(userId), 1))

\* the fragments the texts of an extractMessageText call are made of: the
\* bot's mention token, its two halves, a blank, a word
Pieces ==
    { MentionToken(botUserId), <<"<", "@">>, <<botUserId, ">">>, <<" ">>,
      <<"h", "i">> }

RECURSIVE TextsOf(_)
TextsOf(n) ==
    IF n = 0 THEN {<<>>}
    ELSE LET shorter == TextsOf(n - 1)
         IN  shorter \cup {t \o p : t \in shorter, p \in Pieces}

TextInputs == [text : TextsOf(MaxPieces), userId : {botUserId}]

TextPending == [state |-> "pending", value |-> <<>>]

\* one call of extractMessageText
Extract ==
    /\ vout.state = "pending"
    /\ vout' = [state |-> "returned",
                value |-> extractMessageText(vin.text, vin.userId)]
    /\ UNCHANGED <<vin, bridgeVars>>

-----------------------------------------------------------------------------
(* The requests the endpoint may receive *)

\* event.channel: a DM conversation or a public channel
ChannelOf(channelType) == IF channelType = "im" THEN "D1" ELSE "C1"

\* SlackEvent.  hasText = FALSE is an event without a `text` field (the
\* payload is cast to SlackWebhookPayload, never validated)
Event(type, user, channelType, hasText, text) ==
    [type |-> type, event_ts |-> "t1", user |-> user, hasText |-> hasText,
     text |-> text, channel |-> ChannelOf(channelType),
     channel_type |-> channelType]

Events ==
    { Event("message", "U", "im", TRUE, <<"h", "i">>),
      Event("message", "U", "im", TRUE, <<" ">>),
      Event("message", "U", "im", FALSE, <<>>),
      Event("message", "B", "im", TRUE, <<"h", "i">>),
      Event("reaction_added", "U", "im", TRUE, <<"h", "i">>),
      Event("message", "U", "channel", TRUE, <<"h", "i">>),
      Event("message", "U", "channel", TRUE,
            <<"<", "@", "B", ">", " ", "h", "i">>),
      Event("message", "U", "channel", TRUE, <<"<", "@", "B", ">">>),
      Event("message", "U", "channel", FALSE, <<>>) }

NoEvent ==
    [type |-> "", event_ts |-> "", user |-> "", hasText |-> FALSE,
     text |-> <<>>, channel |-> "", channel_type |-> ""]

\* SlackWebhookPayload; json is the text JSON.stringify(req.body) yields
Payloads ==
    { [type |-> "event_callback", challenge |-> "", hasEvent |-> TRUE,
       event |-> e, json |-> "b1"] : e \in Events }
    \cup
    { [type |-> "event_callback", challenge |-> "", hasEvent |-> FALSE,
       event |-> NoEvent, json |-> "b1"],
      [type |-> "url_verification", challenge |-> "c1", hasEvent |-> FALSE,
       event |-> NoEvent, json |-> "b1"],
      [type |-> "url_verification", challenge |-> "c2", hasEvent |-> FALSE,
       event |-> NoEvent, json |-> "b1"],
      [type |-> "url_verification", challenge |-> "", hasEvent |-> FALSE,
       event |-> NoEvent, json |-> "b1"],
      [type |-> "app_rate_limited", challenge |-> "", hasEvent |-> FALSE,
       event |-> NoEvent, json |-> "b1"] }

\* a payload that is processed when its request is accepted
ProbePayload ==
    [type |-> "event_callback", challenge |-> "", hasEvent |-> TRUE,
     event |-> Event("message", "U", "im", TRUE, <<"h", "i">>), json |-> "b1"]

FreshTimestamp == <<"1", "0", "0", "0">>

\* requests signed by Slack with the configured secret, now
SignedRequests ==
    { [signature |-> SlackSigns(signingSecret, FreshTimestamp, p.json),
       timestamp |-> FreshTimestamp, time |-> Now, payload |-> p] :
         p \in Payloads }

\* requests that should not pass the signature check
ProbeRequests ==
    { [signature |-> sg, timestamp |-> ts, time |-> Now,
       payload |-> ProbePayload] :
         sg \in {MissingSignature, ForgedSignature, ShortSignature,
                 SlackSigns("s2", FreshTimestamp, "b1"),
                 SlackSigns(signingSecret, FreshTimestamp, "b2")},
         ts \in {FreshTimestamp} }
    \cup
    { [signature |-> SlackSigns(signingSecret, ts, "b1"), timestamp |-> ts,
       time |-> Now, payload |-> ProbePayload] :
         ts \in { <<"6", "9", "9">>, <<"1", "3", "0", "1">> } }
    \cup
    { [signature |-> SlackSigns(signingSecret, FreshTimestamp, "b1"),
       timestamp |-> <<>>, time |-> Now, payload |-> ProbePayload] }

Requests == SignedRequests \cup ProbeRequests

NoRequest ==
    [signature |-> MissingSignature, timestamp |-> <<>>, time |-> 0,
     payload |-> [type |-> "", challenge |-> "", hasEvent |-> FALSE,
                  event |-> NoEvent, json |-> ""]]

-----------------------------------------------------------------------------
(* slackIntegration.ts: SlackIntegration.handleEvent, up to its first await *)

\* the outbound calls made for one delivery, by kind
NoCalls ==
    [prompt |-> 0,       \* postMessage "Please provide a message ..."
     ephemeral |-> 0,    \* postEphemeral (no call in handleEvent)
     ackPost |-> 0,      \* postMessage "Processing your request..."
     submit |-> 0,       \* POST {continueApiUrl}/message
     queued |-> 0,       \* updateMessage "Your request has been queued ..."
     submitError |-> 0,  \* updateMessage "Error processing your request ..."
     timer |-> 0,        \* setInterval
     query |-> 0,        \* GET {continueApiUrl}/state
     relay |-> 0,        \* updateMessage "Complete!" + content
     complete |-> 0,     \* updateMessage "Processing complete."
     timeout |-> 0,      \* updateMessage "Request timed out ..."
     pollError |-> 0,    \* updateMessage "Error getting results ..."
     targets |-> {}]     \* the messages the updateMessage calls were sent to

Made(o, call) == [o EXCEPT ![call] = @ + 1]

\* Slack gives every message it posts a timestamp of its own.  The one it
\* returned for the acknowledgment post of delivery d is written d; 0 stands
\* for an ackResponse without `ts`.
AckTs(d) == IF ack[d].ts THEN d ELSE 0

\* a bridge that keeps one target for all its sessions, the one of the
\* acknowledged delivery received last
SharedTarget(d) ==
    LET acked == {e \in Deliveries : ack[e].ts}
        last == IF acked = {} THEN d
                ELSE CHOOSE e \in acked : \A f \in acked : f <= e
    IN  [channel |-> req[last].payload.event.channel, ts |-> AckTs(last)]

\* the first two arguments of the updateMessage calls made for delivery d:
\* `event.channel, ackResponse.ts` in handleEvent, and the parameters
\* `channel, messageTs` that pollAndSendResults received from it
UpdateTarget(d) ==
    [channel |-> req[d].payload.event.channel, ts |-> AckTs(d)]

\* this.client.updateMessage(channel, ts, text) for delivery d: one more call
\* of its kind, sent to its target
updateMessage(o, d, call) ==
    [Made(o, call) EXCEPT !.targets = @ \cup {UpdateTarget(d)}]

\* `${event.channel}:${event.event_ts}`
messageId(event) == <<event.channel, event.event_ts>>

\* a handler without the own-message test
NeverOwnMessage(event) == FALSE

\* `event.user === this.config.botUserId`
IsOwnMessage(event) == event.user = botUserId

\* a gate that lets every delivery pass
NeverHeld(set, id) == FALSE

\* this.processingMessages.has(messageId)
AlreadyProcessing(set, id) == id \in set

\* an exit that leaves the key behind
KeepHeld(set, id) == set

\* this.processingMessages.delete(messageId) of the finally block
Release(set, id) == set \ {id}

\* a routing test that asks for the mention in DMs too
RequiresMention(event) == ~isBotMentioned(event.text, botUserId)

\* `!isDM && !isBotMentioned(...)`, once the text is known to be a string
NotAddressed(event) ==
    ~isDirectMessage(event) /\ ~isBotMentioned(event.text, botUserId)

\* handleEvent from its entry to its first await or its return:
\*   at    where the call stands afterwards
\*   exit  how it ended, if it did
\*   held  the in-flight set afterwards
\*   call  the outbound call it issued, if any
HandleEventStart(payload, held) ==
    LET event == payload.event
        id == messageId(event)
        ended(how, set) ==
            [at |-> "done", exit |-> how, held |-> set, call |-> "none"]
    IN  IF ~payload.hasEvent THEN ended("threw", held)
        ELSE IF event.type # "message" THEN ended("notMessage", held)
        ELSE IF IsOwnMessage(event) THEN ended("ownMessage", held)
        ELSE IF AlreadyProcessing(held, id) THEN ended("duplicate", held)
        ELSE IF ~event.hasText
             THEN ended("threw", Release(held \cup {id}, id))
        ELSE IF NotAddressed(event)
             THEN ended("notAddressed", Release(held \cup {id}, id))
        ELSE IF extractMessageText(event.text, botUserId) = <<>>
             THEN [at |-> "prompt", exit |-> "none", held |-> held \cup {id},
                   call |-> "prompt"]
        ELSE [at |-> "ack", exit |-> "none", held |-> held \cup {id},
              call |-> "ackPost"]

-----------------------------------------------------------------------------
(* webhook.ts: handleSlackWebhook *)

Response(status, body) == [status |-> status, body |-> body]

\* a handshake answered with an empty success response
AcknowledgeOnly(payload) == Response(200, "")

\* `res.json({ challenge: payload.challenge })`
ChallengeResponse(payload) == Response(200, payload.challenge)

\* the synchronous phase: the response sent, and whether onMessage is called
SyncPhase(r) ==
    IF ~r.signature.present \/ r.timestamp = <<>>
    THEN [res |-> Response(401, "Unauthorized"), onMessage |-> FALSE]
    ELSE LET v == verifySlackSignature(signingSecret, r.signature, r.timestamp,
                                       r.payload.json, r.time)
         IN  IF v.threw
             THEN [res |-> Response(500, "Internal server error"),
                   onMessage |-> FALSE]
             ELSE IF ~v.value
             THEN [res |-> Response(401, "Unauthorized"), onMessage |-> FALSE]
             ELSE IF r.payload.type = "url_verification"
                     /\ r.payload.challenge # ""
             THEN [res |-> ChallengeResponse(r.payload), onMessage |-> FALSE]
             ELSE IF r.payload.type = "event_callback"
             THEN [res |-> Response(200, ""), onMessage |-> TRUE]
             ELSE [res |-> Response(400, "Unknown event type"),
                   onMessage |-> FALSE]

\* a handler that has not responded when it calls onMessage
RespondLater(sent, res) == sent

\* a handler that responds again where it returns
RespondTwice(sent, res) == Append(Append(sent, res), res)

\* res.status(...).send() or res.json(...): one more response on the wire
Respond(sent, res) == Append(sent, res)

\* a handler without the try around onMessage: the rejection reaches the
\* outer catch, which responds 500
OuterCatch(sent) == Append(sent, Response(500, "Internal server error"))

\* the catch around `await onMessage(payload)`: the error is logged
InnerCatch(sent) == sent

\* POST /slack/events: handleSlackWebhook, and handleEvent as far as it runs
\* before it first awaits
Receive(d, r) ==
    /\ pc[d] = "idle"
    /\ \A e \in Deliveries : e < d => pc[e] # "idle"
    /\ req' = [req EXCEPT ![d] = r]
    /\ LET s == SyncPhase(r)
           threw == s.onMessage
                      /\ HandleEventStart(r.payload, processingMessages).exit
                            = "threw"
       IN  /\ http' = [http EXCEPT ![d] = IF threw
                                          THEN InnerCatch(Respond(@, s.res))
                                          ELSE Respond(@, s.res)]
           /\ IF s.onMessage
              THEN LET h == HandleEventStart(r.payload, processingMessages)
                   IN  /\ pc' = [pc EXCEPT ![d] = h.at]
                       /\ exit' = [exit EXCEPT ![d] = h.exit]
                       /\ processingMessages' = h.held
                       /\ out' = IF h.call = "none" THEN out
                                 ELSE [out EXCEPT ![d] = Made(@, h.call)]
              ELSE /\ pc' = [pc EXCEPT ![d] = "done"]
                   /\ exit' = [exit EXCEPT ![d] = "notInvoked"]
                   /\ UNCHANGED <<processingMessages, out>>
    /\ UNCHANGED <<ack, pollInterval, polls, lastMessageCount, ticks, history,
                   vin, vout>>

-----------------------------------------------------------------------------
(* slackIntegration.ts: handleEvent after its awaits *)

\* the finally block, and the return to handleSlackWebhook
Finish(d, how) ==
    /\ pc' = [pc EXCEPT ![d] = "done"]
    /\ exit' = [exit EXCEPT ![d] = how]
    /\ processingMessages' =
           Release(processingMessages, messageId(req[d].payload.event))

\* the "Please provide a message" post has returned (client.postMessage
\* returns a value whether or not Slack accepted the message)
PromptDone(d) ==
    /\ pc[d] = "prompt"
    /\ Finish(d, "prompted")
    /\ UNCHANGED <<req, http, ack, out, pollInterval, polls, lastMessageCount,
                   ticks, history, vin, vout>>

\* what client.postMessage may return for the acknowledgment post
AckResponses ==
    { [ok |-> TRUE, ts |-> TRUE],     \* posted
      [ok |-> FALSE, ts |-> FALSE],   \* Slack refused, or the transport failed
      [ok |-> TRUE, ts |-> FALSE] }   \* ok without a message timestamp

\* a test that trusts `ok` and does not look for the message timestamp
NotOk(ackResponse) == ~ackResponse.ok

\* `!ackResponse.ok || !ackResponse.ts`
AckFailed(ackResponse) == ~ackResponse.ok \/ ~ackResponse.ts

\* the acknowledgment post has returned
AckDone(d, ackResponse) ==
    /\ pc[d] = "ack"
    /\ ack' = [ack EXCEPT ![d] = ackResponse]
    /\ IF AckFailed(ackResponse)
       THEN /\ Finish(d, "ackFailed")
            /\ UNCHANGED out
       ELSE /\ pc' = [pc EXCEPT ![d] = "submit"]
            /\ out' = [out EXCEPT ![d] = Made(@, "submit")]
            /\ UNCHANGED <<exit, processingMessages>>
    /\ UNCHANGED <<req, http, pollInterval, polls, lastMessageCount, ticks,
                   history, vin, vout>>

\* how the POST /message fetch may end
SubmitResponses == {"ok", "status", "transport"}

\* a handler that creates the timer as soon as the submission returns,
\* before the queued notice
SubmitDoneStartsTimer(d, response) ==
    /\ pc[d] = "submit"
    /\ IF response = "ok"
       THEN /\ pc' = [pc EXCEPT ![d] = "queued"]
            /\ out' = [out EXCEPT ![d] = Made(@, "timer")]
            /\ pollInterval' = [pollInterval EXCEPT ![d] = TRUE]
       ELSE /\ pc' = [pc EXCEPT ![d] = "submitError"]
            /\ out' = [out EXCEPT ![d] = updateMessage(@, d, "submitError")]
            /\ UNCHANGED pollInterval
    /\ UNCHANGED <<processingMessages, req, http, ack, polls,
                   lastMessageCount, exit, ticks, history, vin, vout>>

\* a handler that does not look at the status of the response
OnlyTransportFails(response) == response = "transport"

\* the fetch throws, or `!response.ok` throws
SubmitFailed(response) == response # "ok"

\* the submission has returned: queued notice, or the catch block's error
\* notice
SubmitDone(d, response) ==
    /\ pc[d] = "submit"
    /\ IF ~SubmitFailed(response)
       THEN /\ pc' = [pc EXCEPT ![d] = "queued"]
            /\ out' = [out EXCEPT ![d] = updateMessage(@, d, "queued")]
       ELSE /\ pc' = [pc EXCEPT ![d] = "submitError"]
            /\ out' = [out EXCEPT ![d] = updateMessage(@, d, "submitError")]
    /\ UNCHANGED <<processingMessages, req, http, ack, pollInterval, polls,
                   lastMessageCount, exit, ticks, history, vin, vout>>

\* the queued notice has returned: pollAndSendResults creates the timer and
\* returns, handleEvent ends
QueuedDone(d) ==
    /\ pc[d] = "queued"
    /\ pollInterval' = [pollInterval EXCEPT ![d] = TRUE]
    /\ polls' = [polls EXCEPT ![d] = 0]
    /\ lastMessageCount' = [lastMessageCount EXCEPT ![d] = 0]
    /\ out' = [out EXCEPT ![d] = Made(@, "timer")]
    /\ Finish(d, "polling")
    /\ UNCHANGED <<req, http, ack, ticks, history, vin, vout>>

\* the error notice of the catch block has returned
SubmitErrorDone(d) ==
    /\ pc[d] = "submitError"
    /\ Finish(d, "submitFailed")
    /\ UNCHANGED <<req, http, ack, out, pollInterval, polls, lastMessageCount,
                   ticks, history, vin, vout>>

-----------------------------------------------------------------------------
(* The backend behind GET {continueApiUrl}/state *)

\* what the newest history entry may be: a user entry, an assistant entry
\* with content, an assistant entry whose content is empty or blank
EntryKinds == {"user", "assistant", "assistantEmpty"}

NoHistory == [len |-> 0, last |-> "none"]

\* The backend appends an entry to its history.  The bridge sees the history
\* only in the answer to a state query, so the entries appended while no
\* request to the backend is outstanding are appended here, when one is.
BackendAppend(kind) ==
    /\ history.len < MaxHistory
    /\ \E d \in Deliveries : pc[d] = "submit" \/ ticks[d].query > 0
    /\ history' = [len |-> history.len + 1, last |-> kind]
    /\ UNCHANGED <<processingMessages, req, pc, http, ack, out, pollInterval,
                   polls, lastMessageCount, exit, ticks, vin, vout>>

\* how a state query may end: it fails (transport error, non-success status,
\* unreadable body), or it yields the state
QueryResponses ==
    { [ok |-> FALSE, isProcessing |-> FALSE, queueLength |-> 0] }
    \cup [ok : {TRUE}, isProcessing : BOOLEAN, queueLength : {0, 1}]

-----------------------------------------------------------------------------
(* slackIntegration.ts: pollAndSendResults, the setInterval callback *)

NoTicks == [query |-> 0, relayFinished |-> 0, relayProcessing |-> 0]

InFlight(d) ==
    ticks[d].query + ticks[d].relayFinished + ticks[d].relayProcessing

RECURSIVE SumTo(_, _)
SumTo(f, n) == IF n = 0 THEN 0 ELSE f[n] + SumTo(f, n - 1)

\* timer firings so far, over all sessions
TotalTicks == SumTo(polls, NumDeliveries)

\* a budget that allows one tick more
BudgetExceededLate(n) == n > maxPolls + 1

\* a budget that is spent one tick early
BudgetReached(n) == n >= maxPolls

\* `polls > maxPolls`
BudgetExceeded(n) == n > maxPolls

\* a callback whose tick count is a field of the integration, shared by all
\* sessions
TickSharedCount(d) ==
    /\ pollInterval[d]
    /\ polls' = [e \in Deliveries |-> polls[e] + 1]
    /\ IF BudgetExceeded(polls[d] + 1)
       THEN /\ pollInterval' = [pollInterval EXCEPT ![d] = FALSE]
            /\ out' = [out EXCEPT ![d] = updateMessage(@, d, "timeout")]
            /\ UNCHANGED ticks
       ELSE /\ out' = [out EXCEPT ![d] = Made(@, "query")]
            /\ ticks' = [ticks EXCEPT ![d].query = @ + 1]
            /\ UNCHANGED pollInterval
    /\ UNCHANGED <<processingMessages, req, pc, http, ack, lastMessageCount,
                   exit, history, vin, vout>>

\* a callback that tests the budget before it counts the tick
TickTestsThenCounts(d) ==
    /\ pollInterval[d]
    /\ polls' = [polls EXCEPT ![d] = @ + 1]
    /\ IF BudgetExceeded(polls[d])
       THEN /\ pollInterval' = [pollInterval EXCEPT ![d] = FALSE]
            /\ out' = [out EXCEPT ![d] = updateMessage(@, d, "timeout")]
            /\ UNCHANGED ticks
       ELSE /\ out' = [out EXCEPT ![d] = Made(@, "query")]
            /\ ticks' = [ticks EXCEPT ![d].query = @ + 1]
            /\ UNCHANGED pollInterval
    /\ UNCHANGED <<processingMessages, req, pc, http, ack, lastMessageCount,
                   exit, history, vin, vout>>

\* the setInterval callback, from its start to its first await: the timeout
\* branch, or the state query
Tick(d) ==
    /\ pollInterval[d]
    /\ polls' = [polls EXCEPT ![d] = @ + 1]
    /\ IF BudgetExceeded(polls[d] + 1)
       THEN /\ pollInterval' = [pollInterval EXCEPT ![d] = FALSE]
            /\ out' = [out EXCEPT ![d] = updateMessage(@, d, "timeout")]
            /\ UNCHANGED ticks
       ELSE /\ out' = [out EXCEPT ![d] = Made(@, "query")]
            /\ ticks' = [ticks EXCEPT ![d].query = @ + 1]
            /\ UNCHANGED pollInterval
    /\ UNCHANGED <<processingMessages, req, pc, http, ack, lastMessageCount,
                   exit, history, vin, vout>>

\* the timer fires, within the bounds on suspended callbacks and on firings
TimerFire(d) ==
    /\ InFlight(d) < MaxInFlight
    /\ TotalTicks < MaxTicks
    /\ Tick(d)

\* `!state.isProcessing && state.queueLength === 0`
Finished(state) == ~state.isProcessing /\ state.queueLength = 0

\* a completion check that always makes the notice
AlwaysNotify(count) == TRUE

\* `lastMessageCount === 0`, the test that guards the completion notice
NothingSeen(count) == count = 0

\* a completion check that makes the notice and leaves the timer running
NoticeOnly(d, finished, count) ==
    /\ out' = IF finished /\ NothingSeen(count)
              THEN [out EXCEPT ![d] = updateMessage(@, d, "complete")]
              ELSE out
    /\ UNCHANGED pollInterval

\* the completion check that ends a callback
CheckComplete(d, finished, count) ==
    IF finished
    THEN /\ pollInterval' = [pollInterval EXCEPT ![d] = FALSE]
         /\ out' = IF NothingSeen(count)
                   THEN [out EXCEPT ![d] = updateMessage(@, d, "complete")]
                   ELSE out
    ELSE UNCHANGED <<pollInterval, out>>

\* a catch block that reports the error and leaves the timer running
ReportAndRetry(d) ==
    /\ out' = [out EXCEPT ![d] = updateMessage(@, d, "pollError")]
    /\ ticks' = [ticks EXCEPT ![d].query = @ - 1]
    /\ UNCHANGED <<pollInterval, lastMessageCount>>

\* the catch block of the callback: clearInterval, then the error notice
QueryFailed(d) ==
    /\ pollInterval' = [pollInterval EXCEPT ![d] = FALSE]
    /\ out' = [out EXCEPT ![d] = updateMessage(@, d, "pollError")]
    /\ ticks' = [ticks EXCEPT ![d].query = @ - 1]
    /\ UNCHANGED lastMessageCount

\* a comparison that takes an unchanged history for a new one
GrewOrSame(len, count) == len >= count

\* `state.history.length > lastMessageCount`
Grew(len, count) == len > count

\* a state query of session d has returned
QueryDone(d, response) ==
    /\ ticks[d].query > 0
    /\ IF ~response.ok
       THEN QueryFailed(d)
       ELSE LET grew == Grew(history.len, lastMessageCount[d])
                count == IF grew THEN history.len ELSE lastMessageCount[d]
            IN  /\ lastMessageCount' = [lastMessageCount EXCEPT ![d] = count]
                /\ IF grew /\ history.last = "assistant"
                   THEN \* await updateMessage(content)
                        /\ out' = [out EXCEPT ![d] = updateMessage(@, d, "relay")]
                        /\ ticks' =
                             [ticks EXCEPT ![d] =
                                IF Finished(response)
                                THEN [@ EXCEPT !.query = @ - 1,
                                               !.relayFinished = @ + 1]
                                ELSE [@ EXCEPT !.query = @ - 1,
                                               !.relayProcessing = @ + 1]]
                        /\ UNCHANGED pollInterval
                   ELSE /\ ticks' = [ticks EXCEPT ![d].query = @ - 1]
                        /\ CheckComplete(d, Finished(response), count)
    /\ UNCHANGED <<processingMessages, req, pc, http, ack, polls, exit,
                   history, vin, vout>>

\* the content update of a callback has returned: its completion check
RelayDone(d, finished) ==
    /\ IF finished THEN ticks[d].relayFinished > 0
                   ELSE ticks[d].relayProcessing > 0
    /\ ticks' = [ticks EXCEPT ![d] =
                    IF finished THEN [@ EXCEPT !.relayFinished = @ - 1]
                                ELSE [@ EXCEPT !.relayProcessing = @ - 1]]
    /\ CheckComplete(d, finished, lastMessageCount[d])
    /\ UNCHANGED <<processingMessages, req, pc, http, ack, polls,
                   lastMessageCount, exit, history, vin, vout>>

-----------------------------------------------------------------------------
(* client.ts: SlackClient.postMessage, updateMessage, postEphemeral *)

Methods == {"postMessage", "updateMessage", "postEphemeral"}

\* SlackMessageResponse as Slack may send it: `ok` true, false or missing;
\* `ts` and `error` present or not ("" stands for a missing field)
SlackBodies ==
    [ok : {"true", "false", "absent"}, ts : {"", "t1"},
     error : {"", "r1", "r2"}]

NoBody == [ok |-> "absent", ts |-> "", error |-> ""]

\* how the fetch and response.json() of one call may end: the fetch rejects,
\* response.json() rejects, the body is the JSON value null, or the body is
\* an object
FetchOutcomes ==
    [kind : {"transport", "unreadable"}, text : {"e1", "e2"}, body : {NoBody}]
    \cup [kind : {"null"}, text : {"TypeError"}, body : {NoBody}]
    \cup [kind : {"body"}, text : {""}, body : SlackBodies]

\* `{ ok: false, error: formatError(error) }`
Failure(text) == [ok |-> "false", ts |-> "", error |-> text]

\* a method without the try/catch: what the fetch throws, the caller gets
ClientCallUnguarded(method, outcome) ==
    IF outcome.kind = "body"
    THEN [threw |-> FALSE, value |-> outcome.body]
    ELSE [threw |-> TRUE, value |-> NoBody]

\* one call of a SlackClient method; the three differ in the URL, the
\* request body and the log text only
ClientCall(method, outcome) ==
    IF outcome.kind = "body"
    THEN [threw |-> FALSE, value |-> outcome.body]
    ELSE \* the catch block; reading `ok` of null throws inside the try
         [threw |-> FALSE, value |-> Failure(outcome.text)]

ClientInputs == [method : Methods, outcome : FetchOutcomes]

CallPending == [state |-> "pending", value |-> NoBody]

\* one call of a SlackClient method
Call ==
    /\ vout.state = "pending"
    /\ LET r == ClientCall(vin.method, vin.outcome)
       IN  vout' = [state |-> IF r.threw THEN "threw" ELSE "returned",
                    value |-> r.value]
    /\ UNCHANGED <<vin, bridgeVars>>

-----------------------------------------------------------------------------
(* commandUtils.ts: findCommandPath, resolveCommand *)

\* commands: an absolute path, a bare name, the empty string
Commands == {"/usr/bin/node", "npx", ""}

\* path.isAbsolute
isAbsolute(command) == command = "/usr/bin/node"

\* possiblePaths for the command, in the order of the array: APPDATA npm
\* .cmd and .bat, ProgramFiles nodejs .cmd and .bat, ProgramFiles(x86)
\* nodejs .cmd and .bat
possiblePaths == <<"w1", "w2", "w3", "w4", "w5", "w6">>

\* how `which`/`where` may end: execAsync rejects (not found, timeout), or
\* resolves with a stdout whose first line, trimmed, is empty or a path
ExecOutcomes ==
    { [threw |-> TRUE, foundPath |-> ""],
      [threw |-> FALSE, foundPath |-> ""],
      [threw |-> FALSE, foundPath |-> "/usr/local/bin/npx"] }

\* the files fs.existsSync may be asked about
Files ==
    {"/usr/bin/node", "/usr/local/bin/npx"}
        \cup {possiblePaths[i] : i \in 1..Len(possiblePaths)}

CommandInputs ==
    [command : Commands, win32 : BOOLEAN, exec : ExecOutcomes,
     exists : SUBSET Files]

Null == [null |-> TRUE, path |-> ""]

Path(p) == [null |-> FALSE, path |-> p]

findCommandPath(command, env) ==
    IF isAbsolute(command)
    THEN IF command \in env.exists THEN Path(command) ELSE Null
    ELSE IF ~env.exec.threw /\ env.exec.foundPath # ""
            /\ env.exec.foundPath \in env.exists
    THEN Path(env.exec.foundPath)
    ELSE LET hits == {i \in 1..Len(possiblePaths) :
                        possiblePaths[i] \in env.exists}
         IN  IF env.win32 /\ hits # {}
             THEN Path(possiblePaths[CHOOSE i \in hits :
                                        \A j \in hits : i <= j])
             ELSE Null

\* a resolveCommand that hands on what findCommandPath returned
ReturnResolved(command, env) == findCommandPath(command, env)

\* `resolved || command`: null and "" are falsy
resolveCommand(command, env) ==
    LET resolved == findCommandPath(command, env)
    IN  IF resolved.null \/ resolved.path = "" THEN Path(command)
        ELSE resolved

CommandPending == [state |-> "pending", value |-> Null]

\* one call of resolveCommand
Resolve ==
    /\ vout.state = "pending"
    /\ vout' = [state |-> "returned",
                value |-> resolveCommand(vin.command, vin)]
    /\ UNCHANGED <<vin, bridgeVars>>

-----------------------------------------------------------------------------
(* ServiceLifecycleManager.ts: resetForNewSession, cleanup *)

\* SERVICE_NAMES the two methods ask serviceContainer.isReady about
Services == {"CHAT_HISTORY", "MCP", "FILE_INDEX", "STORAGE_SYNC"}

\* the steps that may throw: the dynamic imports, the calls on what they
\* export, serviceContainer.isReady
StepNames ==
    {"importSession", "clearSession", "isReady", "importServices",
     "clearChatHistory", "saveSession"}

\* `if (serviceContainer.isReady(name)) { ... }`
WhenReady(ready, name, steps) ==
    <<"isReady">> \o (IF name \in ready THEN steps ELSE <<>>)

\* the steps inside the try block of resetForNewSession, in order
ResetSteps(ready) ==
    <<"importSession", "clearSession">>
        \o WhenReady(ready, "CHAT_HISTORY",
                     <<"importServices", "clearChatHistory">>)
        \o WhenReady(ready, "MCP", <<"importServices">>)
        \o WhenReady(ready, "FILE_INDEX", <<"importServices">>)

\* the steps inside the try block of cleanup, in order
CleanupSteps(ready) ==
    WhenReady(ready, "MCP", <<"importServices">>)
        \o WhenReady(ready, "STORAGE_SYNC", <<"importServices">>)
        \o <<"importSession", "saveSession">>

StepsOf(method, ready) ==
    IF method = "resetForNewSession" THEN ResetSteps(ready)
    ELSE CleanupSteps(ready)

\* the index of the step that throws, or one past the last step
ThrowsAt(steps, fail) ==
    LET at == {i \in 1..Len(steps) : steps[i] = fail}
    IN  IF at = {} THEN Len(steps) + 1
        ELSE CHOOSE i \in at : \A j \in at : i <= j

\* a method without the try/catch
RunUnguarded(method, ready, fail) ==
    LET steps == StepsOf(method, ready)
        n == ThrowsAt(steps, fail)
    IN  [threw |-> n <= Len(steps),
         logged |-> FALSE,
         done |-> {steps[i] : i \in 1..(n - 1)}]

\* one call: the steps run in order up to the one that throws; the catch
\* block logs the error and the method returns
Run(method, ready, fail) ==
    LET steps == StepsOf(method, ready)
        n == ThrowsAt(steps, fail)
    IN  [threw |-> FALSE,
         logged |-> n <= Len(steps),
         done |-> {steps[i] : i \in 1..(n - 1)}]

LifecycleInputs ==
    [method : {"resetForNewSession", "cleanup"}, ready : SUBSET Services,
     fail : StepNames \cup {"none"}]

LifecyclePending ==
    [state |-> "pending", logged |-> FALSE, done |-> {}]

\* one call of resetForNewSession or cleanup
Lifecycle ==
    /\ vout.state = "pending"
    /\ LET r == Run(vin.method, vin.ready, vin.fail)
       IN  vout' = [state |-> IF r.threw THEN "threw" ELSE "returned",
                    logged |-> r.logged, done |-> r.done]
    /\ UNCHANGED <<vin, bridgeVars>>

-----------------------------------------------------------------------------
(* Specifications *)

Init ==
    /\ processingMessages = {}
    /\ req = [d \in Deliveries |-> NoRequest]
    /\ pc = [d \in Deliveries |-> "idle"]
    /\ http = [d \in Deliveries |-> <<>>]
    /\ ack = [d \in Deliveries |-> [ok |-> FALSE, ts |-> FALSE]]
    /\ out = [d \in Deliveries |-> NoCalls]
    /\ pollInterval = [d \in Deliveries |-> FALSE]
    /\ polls = [d \in Deliveries |-> 0]
    /\ lastMessageCount = [d \in Deliveries |-> 0]
    /\ exit = [d \in Deliveries |-> "none"]
    /\ ticks = [d \in Deliveries |-> NoTicks]
    /\ history = NoHistory
    /\ vin = NoVerifyInput
    /\ vout = Pending

Next ==
    \/ \E d \in Deliveries, r \in Requests : Receive(d, r)
    \/ \E d \in Deliveries : PromptDone(d)
    \/ \E d \in Deliveries, a \in AckResponses : AckDone(d, a)
    \/ \E d \in Deliveries, s \in SubmitResponses : SubmitDone(d, s)
    \/ \E d \in Deliveries : QueuedDone(d)
    \/ \E d \in Deliveries : SubmitErrorDone(d)
    \/ \E d \in Deliveries : TimerFire(d)
    \/ \E d \in Deliveries, q \in QueryResponses : QueryDone(d, q)
    \/ \E d \in Deliveries, f \in BOOLEAN : RelayDone(d, f)
    \/ \E k \in EntryKinds : BackendAppend(k)

Spec == Init /\ [][Next]_vars

\* verifySlackSignature alone, over all its inputs
InitSig ==
    /\ processingMessages = {}
    /\ req = [d \in Deliveries |-> NoRequest]
    /\ pc = [d \in Deliveries |-> "idle"]
    /\ http = [d \in Deliveries |-> <<>>]
    /\ ack = [d \in Deliveries |-> [ok |-> FALSE, ts |-> FALSE]]
    /\ out = [d \in Deliveries |-> NoCalls]
    /\ pollInterval = [d \in Deliveries |-> FALSE]
    /\ polls = [d \in Deliveries |-> 0]
    /\ lastMessageCount = [d \in Deliveries |-> 0]
    /\ exit = [d \in Deliveries |-> "none"]
    /\ ticks = [d \in Deliveries |-> NoTicks]
    /\ history = NoHistory
    /\ vin \in VerifyInputs
    /\ vout = Pending

NextSig == Verify

SpecSig == InitSig /\ [][NextSig]_vars

\* the bridge before any delivery
BridgeIdle ==
    /\ processingMessages = {}
    /\ req = [d \in Deliveries |-> NoRequest]
    /\ pc = [d \in Deliveries |-> "idle"]
    /\ http = [d \in Deliveries |-> <<>>]
    /\ ack = [d \in Deliveries |-> [ok |-> FALSE, ts |-> FALSE]]
    /\ out = [d \in Deliveries |-> NoCalls]
    /\ pollInterval = [d \in Deliveries |-> FALSE]
    /\ polls = [d \in Deliveries |-> 0]
    /\ lastMessageCount = [d \in Deliveries |-> 0]
    /\ exit = [d \in Deliveries |-> "none"]
    /\ ticks = [d \in Deliveries |-> NoTicks]
    /\ history = NoHistory

\* a SlackClient method alone, over all the ways its fetch may end
InitClient ==
    /\ BridgeIdle
    /\ vin \in ClientInputs
    /\ vout = CallPending

NextClient == Call

SpecClient == InitClient /\ [][NextClient]_vars

\* extractMessageText alone, over the texts made of up to MaxPieces fragments
InitText ==
    /\ BridgeIdle
    /\ vin \in TextInputs
    /\ vout = TextPending

NextText == Extract

SpecText == InitText /\ [][NextText]_vars

\* resolveCommand alone, over commands, platforms, outcomes of which/where
\* and sets of existing files
InitCommand ==
    /\ BridgeIdle
    /\ vin \in CommandInputs
    /\ vout = CommandPending

NextCommand == Resolve

SpecCommand == InitCommand /\ [][NextCommand]_vars

\* resetForNewSession and cleanup alone, over the services that are ready
\* and the step that throws
InitLifecycle ==
    /\ BridgeIdle
    /\ vin \in LifecycleInputs
    /\ vout = LifecyclePending

NextLifecycle == Lifecycle

SpecLifecycle == InitLifecycle /\ [][NextLifecycle]_vars

\* a backend that stays busy: every state query is answered, with
\* isProcessing=true, and the history does not grow; the timer fires
\* whenever it is set, whatever the number of suspended callbacks
BusyResponses == [ok : {TRUE}, isProcessing : {TRUE}, queueLength : {0, 1}]

NextBusy ==
    \/ \E d \in Deliveries, r \in Requests : Receive(d, r)
    \/ \E d \in Deliveries : PromptDone(d)
    \/ \E d \in Deliveries, a \in AckResponses : AckDone(d, a)
    \/ \E d \in Deliveries, s \in SubmitResponses : SubmitDone(d, s)
    \/ \E d \in Deliveries : QueuedDone(d)
    \/ \E d \in Deliveries : SubmitErrorDone(d)
    \/ \E d \in Deliveries : Tick(d)
    \/ \E d \in Deliveries, q \in BusyResponses : QueryDone(d, q)

SpecBusy == Init /\ [][NextBusy]_vars

\* The timer fires whenever it is set, whatever the number of suspended
\* callbacks, and keeps firing: setInterval schedules the callback every
\* second until clearInterval, and no code of the bridge blocks the event
\* loop.  The backend and Slack answer as they like, or not at all.
NextFair ==
    \/ \E d \in Deliveries, r \in Requests : Receive(d, r)
    \/ \E d \in Deliveries : PromptDone(d)
    \/ \E d \in Deliveries, a \in AckResponses : AckDone(d, a)
    \/ \E d \in Deliveries, s \in SubmitResponses : SubmitDone(d, s)
    \/ \E d \in Deliveries : QueuedDone(d)
    \/ \E d \in Deliveries : SubmitErrorDone(d)
    \/ \E d \in Deliveries : Tick(d)
    \/ \E d \in Deliveries, q \in QueryResponses : QueryDone(d, q)
    \/ \E d \in Deliveries, f \in BOOLEAN : RelayDone(d, f)
    \/ \E k \in EntryKinds : BackendAppend(k)

SpecFair ==
    Init /\ [][NextFair]_vars /\ \A d \in Deliveries : WF_vars(Tick(d))

\* a backend that has the answer when the first state query returns: the
\* history grows by one assistant entry with content before any query is
\* answered and stays as it is, and every query is answered
OkResponses == [ok : {TRUE}, isProcessing : BOOLEAN, queueLength : {0, 1}]

NextAnswer ==
    \/ \E d \in Deliveries, r \in Requests : Receive(d, r)
    \/ \E d \in Deliveries : PromptDone(d)
    \/ \E d \in Deliveries, a \in AckResponses : AckDone(d, a)
    \/ \E d \in Deliveries, s \in SubmitResponses : SubmitDone(d, s)
    \/ \E d \in Deliveries : QueuedDone(d)
    \/ \E d \in Deliveries : SubmitErrorDone(d)
    \/ \E d \in Deliveries : Tick(d)
    \/ history.len = 0 /\ BackendAppend("assistant")
    \/ \E d \in Deliveries, q \in OkResponses :
          history.len = 1 /\ QueryDone(d, q)
    \/ \E d \in Deliveries, f \in BOOLEAN : RelayDone(d, f)

SpecAnswer == Init /\ [][NextAnswer]_vars

\* a backend that holds the answer to an earlier request before any delivery
\* is received, and appends nothing: every state query is answered, with
\* the same history
StaleHistory == [len |-> 1, last |-> "assistant"]

InitStale ==
    /\ processingMessages = {}
    /\ req = [d \in Deliveries |-> NoRequest]
    /\ pc = [d \in Deliveries |-> "idle"]
    /\ http = [d \in Deliveries |-> <<>>]
    /\ ack = [d \in Deliveries |-> [ok |-> FALSE, ts |-> FALSE]]
    /\ out = [d \in Deliveries |-> NoCalls]
    /\ pollInterval = [d \in Deliveries |-> FALSE]
    /\ polls = [d \in Deliveries |-> 0]
    /\ lastMessageCount = [d \in Deliveries |-> 0]
    /\ exit = [d \in Deliveries |-> "none"]
    /\ ticks = [d \in Deliveries |-> NoTicks]
    /\ history = StaleHistory
    /\ vin = NoVerifyInput
    /\ vout = Pending

NextStale ==
    \/ \E d \in Deliveries, r \in Requests : Receive(d, r)
    \/ \E d \in Deliveries : PromptDone(d)
    \/ \E d \in Deliveries, a \in AckResponses : AckDone(d, a)
    \/ \E d \in Deliveries, s \in SubmitResponses : SubmitDone(d, s)
    \/ \E d \in Deliveries : QueuedDone(d)
    \/ \E d \in Deliveries : SubmitErrorDone(d)
    \/ \E d \in Deliveries : TimerFire(d)
    \/ \E d \in Deliveries, q \in OkResponses : QueryDone(d, q)
    \/ \E d \in Deliveries, f \in BOOLEAN : RelayDone(d, f)

SpecStale == InitStale /\ [][NextStale]_vars

-----------------------------------------------------------------------------
(* Properties *)

Received(d) == pc[d] # "idle"

EventOf(d) == req[d].payload.event

KeyOf(d) == messageId(EventOf(d))

\* handleEvent of d has inserted its key and is suspended at an await
Running(d) == pc[d] \in {"prompt", "ack", "submit", "queued", "submitError"}

\* onMessage was called for d
Invoked(d) == Received(d) /\ exit[d] # "notInvoked"

\* d carries a message event, not the bot's own, and its handleEvent call
\* was not turned away at the dedup gate
PassedGate(d) ==
    /\ Invoked(d)
    /\ req[d].payload.hasEvent
    /\ EventOf(d).type = "message"
    /\ EventOf(d).user # botUserId
    /\ exit[d] # "duplicate"

\* no postMessage, updateMessage or backend call, and no timer
Silent(d) == out[d] = NoCalls /\ ~pollInterval[d] /\ InFlight(d) = 0

\* C1: every key in the in-flight set belongs to a handleEvent call that
\* inserted it and has not yet exited; so once a call has exited, by any
\* path, the key it inserted is gone.
C1_KeyHeldOnlyWhileRunning ==
    \A k \in processingMessages :
        \E d \in Deliveries : Running(d) /\ KeyOf(d) = k

\* a call that started polling and a call that threw after inserting its
\* key have both exited, and the set is empty
C1_Witness ==
    /\ \E d \in Deliveries : exit[d] = "polling"
    /\ \E d \in Deliveries : exit[d] = "threw" /\ req[d].payload.hasEvent
    /\ processingMessages = {}

\* C2: of the deliveries with one (channel, event_ts) at most one is past
\* the gate and running; a delivery turned away at the gate makes no call
\* and starts no timer; and the key of a running call stays in the set.
C2_OnePassesTheGate ==
    /\ \A d, e \in Deliveries :
          d # e /\ Running(d) /\ Running(e) => KeyOf(d) # KeyOf(e)
    /\ \A d \in Deliveries : exit[d] = "duplicate" => Silent(d)
    /\ \A d \in Deliveries : Running(d) => KeyOf(d) \in processingMessages

\* a delivery was turned away while the holder of its key is still running
C2_Witness ==
    \E d, e \in Deliveries :
        /\ d # e
        /\ Running(d)
        /\ exit[e] = "duplicate"
        /\ KeyOf(d) = KeyOf(e)
        /\ KeyOf(d) \in processingMessages

\* C3: for one (channel, event_ts) at most one polling session is active.
C3_OneSessionPerEvent ==
    \A d, e \in Deliveries :
        d # e /\ pollInterval[d] /\ pollInterval[e] => KeyOf(d) # KeyOf(e)

\* the session of d has ended: its timer is cancelled and none of its
\* callbacks is still suspended
Terminated(d) == out[d].timer > 0 /\ ~pollInterval[d] /\ InFlight(d) = 0

TerminalUpdates(d) ==
    out[d].relay + out[d].complete + out[d].timeout + out[d].pollError

\* C4: a session that has ended has made exactly one terminal update.
C4_OneTerminalUpdate ==
    \A d \in Deliveries : Terminated(d) => TerminalUpdates(d) = 1

\* the timestamp header is a number more than 300 seconds from the clock
Stale(time, timestamp) ==
    LET t == parseInt(timestamp)
    IN  ~t.nan /\ (time - t.val > 300 \/ t.val - time > 300)

Fresh(time, timestamp) ==
    LET t == parseInt(timestamp)
    IN  ~t.nan /\ time - t.val <= 300 /\ t.val - time <= 300

SignatureFailure(r) ==
    \/ ~r.signature.present
    \/ r.timestamp = <<>>
    \/ Stale(r.time, r.timestamp)
    \/ r.signature # SlackSigns(signingSecret, r.timestamp, r.payload.json)

\* C5: a request that fails the signature check is answered 401, once, and
\* its event is not processed.
C5_SignatureFailureIs401 ==
    \A d \in Deliveries :
        Received(d) /\ SignatureFailure(req[d]) =>
            /\ http[d] = <<Response(401, "Unauthorized")>>
            /\ exit[d] = "notInvoked"
            /\ Silent(d)

\* C6: a call whose timestamp is more than 300 seconds from the clock, in
\* the past or in the future, returns false and does not throw, whatever the
\* signature.
C6_StaleTimestampRejected ==
    vout.state # "pending" /\ Stale(vin.time, vin.ts) =>
        vout.state = "returned" /\ ~vout.value

\* a timestamp 301 seconds in the future under its correct signature
C6_Witness ==
    /\ vout.state = "returned"
    /\ ~vout.value
    /\ parseInt(vin.ts).val = vin.time + 301
    /\ vin.sig = SlackSigns(vin.secret, vin.ts, vin.body)

\* C7: with the timestamp inside the window the call returns true exactly
\* when the signature is the one Slack computes over this timestamp and
\* body with the configured secret; the signature computed with another
\* secret is rejected.
C7_AcceptsExactlyTheHmac ==
    vout.state # "pending" /\ Fresh(vin.time, vin.ts) =>
        /\ (vout.state = "returned" /\ vout.value)
              <=> (vin.sig = SlackSigns(vin.secret, vin.ts, vin.body))
        /\ \A s \in Secrets \ {vin.secret} :
              vin.sig = SlackSigns(s, vin.ts, vin.body) =>
                  vout.state = "returned" /\ ~vout.value

\* the signature of another secret over the same timestamp and body was
\* rejected
C7_Witness ==
    /\ vout.state = "returned"
    /\ ~vout.value
    /\ Fresh(vin.time, vin.ts)
    /\ \E s \in Secrets \ {vin.secret} :
          vin.sig = SlackSigns(s, vin.ts, vin.body)

\* a message event, not the bot's own, with a text, past the dedup gate
Routed(d) == PassedGate(d) /\ EventOf(d).hasText

ChannelWithoutMention(d) ==
    /\ Routed(d)
    /\ EventOf(d).channel_type # "im"
    /\ ~includes(EventOf(d).text, MentionToken(botUserId))

NotForwarded(d) ==
    out[d].ackPost = 0 /\ out[d].submit = 0 /\ out[d].timer = 0
        /\ ~pollInterval[d]

\* C8 as claimed: a channel message without the mention is not forwarded; a
\* DM whose text is non-empty is acknowledged and submitted.
C8_RoutingAsClaimed ==
    \A d \in Deliveries :
        /\ ChannelWithoutMention(d) => NotForwarded(d)
        /\ Routed(d) /\ EventOf(d).channel_type = "im"
              /\ EventOf(d).text # <<>> =>
                 /\ out[d].ackPost = 1
                 /\ pc[d] = "done" => out[d].submit = 1

\* C8 as amended: a channel message without the mention is not forwarded; a
\* DM whose text is non-empty once the mention tokens are removed and the
\* whitespace is trimmed is acknowledged, and it is submitted once the
\* acknowledgment post has returned ok with a message timestamp.
C8_Routing ==
    \A d \in Deliveries :
        /\ ChannelWithoutMention(d) => NotForwarded(d)
        /\ Routed(d) /\ EventOf(d).channel_type = "im"
              /\ trim(removeAll(EventOf(d).text, MentionToken(botUserId), 1))
                    # <<>> =>
                 /\ out[d].ackPost = 1
                 /\ ack[d].ok /\ ack[d].ts => out[d].submit = 1

\* a DM without the mention was acknowledged and submitted, and a channel
\* message without the mention was dropped
C8_Witness ==
    /\ \E d \in Deliveries :
          /\ Routed(d)
          /\ EventOf(d).channel_type = "im"
          /\ ~includes(EventOf(d).text, MentionToken(botUserId))
          /\ out[d].ackPost = 1
          /\ out[d].submit = 1
    /\ \E d \in Deliveries : ChannelWithoutMention(d) /\ pc[d] = "done"

NotProcessable(event) == event.type # "message" \/ event.user = botUserId

\* C9: an event that is no message, or is the bot's own, makes no call and
\* starts no timer, and the step that handles it leaves the in-flight set as
\* it was.
C9_UnprocessableEventIgnored ==
    /\ [](\A d \in Deliveries :
            Invoked(d) /\ req[d].payload.hasEvent
              /\ NotProcessable(EventOf(d)) => Silent(d) /\ pc[d] = "done")
    /\ [][\A d \in Deliveries :
            pc[d] = "idle" /\ Invoked(d)' /\ req'[d].payload.hasEvent
              /\ NotProcessable(EventOf(d)') =>
                  processingMessages' = processingMessages]_vars

\* the bot's own message arrived while another delivery held a key
C9_Witness ==
    \E d, e \in Deliveries :
        /\ Invoked(d)
        /\ EventOf(d).type = "message"
        /\ EventOf(d).user = botUserId
        /\ Running(e)
        /\ processingMessages = {KeyOf(e)}

\* C10: the submission is issued only after the acknowledgment post has
\* returned; the timer is created only after the submission has returned
\* successfully and the queued notice was made; a state query is made only
\* by a tick of that timer.
C10_StepsInOrder ==
    \A d \in Deliveries :
        /\ out[d].submit > 0 =>
              out[d].ackPost = 1 /\ ack[d].ok /\ ack[d].ts
        /\ out[d].timer > 0 =>
              /\ out[d].submit = 1
              /\ out[d].queued = 1
              /\ out[d].submitError = 0
              /\ pc[d] = "done"
        /\ polls[d] > 0 \/ out[d].query > 0 =>
              out[d].timer = 1 /\ out[d].query <= polls[d]

\* a session has made its first state query
C10_Witness ==
    \E d \in Deliveries :
        /\ out[d].ackPost = 1
        /\ out[d].submit = 1
        /\ out[d].queued = 1
        /\ out[d].timer = 1
        /\ polls[d] = 1
        /\ out[d].query = 1

\* the calls of a delivery whose submission failed, once the error notice is
\* made: the acknowledgment post, the submission, one error notice
SubmitFailureCalls(d) ==
    [NoCalls EXCEPT !.ackPost = 1, !.submit = 1, !.submitError = 1,
                    !.targets = {UpdateTarget(d)}]

\* C11: the step that takes a failed submission (transport error or
\* non-success status) makes the error notice, and from then on the delivery
\* has made that one update and no other, has no timer, has made no state
\* query and has run no tick.
C11_SubmitFailureStops ==
    /\ [][\A d \in Deliveries, s \in {"status", "transport"} :
            SubmitDone(d, s) =>
                /\ pc'[d] = "submitError"
                /\ out'[d] = SubmitFailureCalls(d)]_vars
    /\ [](\A d \in Deliveries :
            pc[d] = "submitError" \/ exit[d] = "submitFailed" =>
                /\ out[d] = SubmitFailureCalls(d)
                /\ ~pollInterval[d]
                /\ polls[d] = 0
                /\ InFlight(d) = 0)

\* a delivery whose submission failed has ended, while the session of
\* another delivery polls
C11_Witness ==
    \E d, e \in Deliveries :
        /\ exit[d] = "submitFailed"
        /\ out[d].submitError = 1
        /\ out[e].query > 0

\* the updates made by the callbacks of the timer of d
PollingUpdates(d) == TerminalUpdates(d)

\* C12 as claimed: with a backend that stays busy, a session that has timed
\* out has made exactly one update, the timeout notice, and its timer is
\* cancelled; and the timer does not fire more often than the budget.
C12_NoTickPastBudget ==
    \A d \in Deliveries :
        /\ out[d].timeout > 0 =>
              /\ out[d].timeout = 1
              /\ PollingUpdates(d) = 1
              /\ ~pollInterval[d]
        /\ polls[d] <= maxPolls

\* C12 as amended: with a backend that stays busy, each of the first
\* maxPolls ticks issues a state query and makes no update; the timer fires
\* once more, and on that tick the count exceeds the budget: the timer is
\* cancelled, the timeout notice is the one update made, no state query is
\* issued; no tick follows it.
C12_TimeoutOnTickPastBudget ==
    \A d \in Deliveries :
        /\ polls[d] <= maxPolls + 1
        /\ out[d].query <= maxPolls
        /\ polls[d] <= maxPolls =>
              /\ PollingUpdates(d) = 0
              /\ out[d].query = polls[d]
              /\ out[d].timer > 0 => pollInterval[d]
        /\ polls[d] = maxPolls + 1 =>
              /\ out[d].timeout = 1
              /\ PollingUpdates(d) = 1
              /\ out[d].query = maxPolls
              /\ ~pollInterval[d]

\* a session has timed out after all its state queries were answered
C12_Witness ==
    \E d \in Deliveries :
        /\ polls[d] = maxPolls + 1
        /\ out[d].query = maxPolls
        /\ InFlight(d) = 0
        /\ out[d].timeout = 1
        /\ ~pollInterval[d]

\* a state query of d has returned
Answered(d) == out[d].query > ticks[d].query

\* the timer of d was cancelled, and not by the timeout branch
EndedInBudget(d) == out[d].timer > 0 /\ ~pollInterval[d] /\ out[d].timeout = 0

\* C13: with a backend that has the answer when the first state query
\* returns, a session relays the content exactly once, as soon as a query has
\* returned, and makes no completion or error notice; the callback that
\* takes isProcessing=false and queueLength=0 cancels the timer at its
\* completion check; and a session so ended, before its budget was spent,
\* has made that one update and makes no further call.
C13_AnswerRelayedOnce ==
    /\ [](\A d \in Deliveries :
            /\ out[d].relay <= 1
            /\ out[d].complete = 0 /\ out[d].pollError = 0
            /\ Answered(d) => out[d].relay = 1
            /\ EndedInBudget(d) => out[d].relay = 1 /\ PollingUpdates(d) = 1)
    /\ [][\A d \in Deliveries :
            /\ RelayDone(d, TRUE) => ~pollInterval'[d] /\ out'[d] = out[d]
            /\ \A q \in OkResponses :
                  Finished(q) /\ Answered(d) /\ QueryDone(d, q) =>
                      ~pollInterval'[d] /\ out'[d] = out[d]
            /\ EndedInBudget(d) => out'[d] = out[d]]_vars

\* the first tick relayed the answer while the backend was processing, a
\* later tick saw it finished, and the session has ended
C13_Witness ==
    \E d \in Deliveries :
        /\ EndedInBudget(d)
        /\ InFlight(d) = 0
        /\ polls[d] = 2
        /\ out[d].relay = 1
        /\ PollingUpdates(d) = 1

\* C14: a content update is made only by a callback that sees a history
\* longer than any the session has seen, and that callback records the
\* length before it makes the update; a callback that sees a length already
\* seen makes none; so the content updates of a session are at most as many
\* as the lengths it has seen.
C14_RelayOncePerGrowth ==
    /\ [][\A d \in Deliveries :
            /\ out'[d].relay > out[d].relay =>
                  /\ history.len > lastMessageCount[d]
                  /\ lastMessageCount'[d] = history.len
                  /\ out'[d].relay = out[d].relay + 1
            /\ history.len <= lastMessageCount[d] =>
                  out'[d].relay = out[d].relay]_vars
    /\ [](\A d \in Deliveries :
            out[d].relay <= lastMessageCount[d]
                /\ lastMessageCount[d] <= history.len)

\* two state queries of a session have returned the same history, an
\* assistant entry, and the session made one content update
C14_Witness ==
    \E d \in Deliveries :
        /\ out[d].query - ticks[d].query = 2
        /\ history = [len |-> 1, last |-> "assistant"]
        /\ lastMessageCount[d] = 1
        /\ out[d].relay = 1

\* the timer of d was cancelled by a completion check, and no callback of
\* the session is suspended
Completed(d) == EndedInBudget(d) /\ out[d].pollError = 0 /\ InFlight(d) = 0

\* C15: a session ended by the completion check has made the completion
\* notice if it relayed no content, and, when one callback did all the
\* work, has not made it if that callback relayed content.
C15_NoticeIffNothingRelayed ==
    \A d \in Deliveries :
        Completed(d) =>
            /\ out[d].relay = 0 => out[d].complete > 0
            /\ out[d].relay > 0 /\ polls[d] = 1 => out[d].complete = 0

\* C16: the callback that takes a failed state query (transport error,
\* non-success status, unreadable body) cancels the timer and makes the
\* error notice; a session that has made the error notice has no timer, and
\* from then on no tick of it runs and no state query is issued for it.
C16_QueryFailureIsFatal ==
    /\ [][\A d \in Deliveries :
            /\ \A q \in QueryResponses :
                  ~q.ok /\ QueryDone(d, q) =>
                      /\ ~pollInterval'[d]
                      /\ out'[d] = updateMessage(out[d], d, "pollError")
            /\ out[d].pollError > 0 =>
                  /\ out'[d].query = out[d].query
                  /\ polls'[d] = polls[d]]_vars
    /\ [](\A d \in Deliveries : out[d].pollError > 0 => ~pollInterval[d])

\* the first state query of a session failed, and its timer is gone, while
\* the session of another delivery has gone on to its second tick
C16_Witness ==
    \E d, e \in Deliveries :
        /\ polls[d] = 1
        /\ out[d].pollError = 1
        /\ ~pollInterval[d]
        /\ polls[e] = 2
        /\ pollInterval[e]

\* the terminal notices: completion, timeout, query error
TerminalNotices(d) == out[d].complete + out[d].timeout + out[d].pollError

\* C17: a handleEvent call creates at most one timer, and a timer is set
\* only if it was created; a session that has made a terminal notice has no
\* timer; the completion check that takes isProcessing=false and
\* queueLength=0 cancels the timer, with or without a notice; and a
\* cancelled timer is never set again.
C17_TimerCancelledAtEnd ==
    /\ [](\A d \in Deliveries :
            /\ out[d].timer <= 1
            /\ pollInterval[d] => out[d].timer = 1
            /\ TerminalNotices(d) > 0 => ~pollInterval[d])
    /\ [][\A d \in Deliveries :
            /\ RelayDone(d, TRUE) => ~pollInterval'[d]
            /\ \A q \in OkResponses :
                  Finished(q) /\ QueryDone(d, q)
                    /\ out'[d].relay = out[d].relay => ~pollInterval'[d]
            /\ out[d].timer > 0 /\ ~pollInterval[d] => ~pollInterval'[d]]_vars

\* one session ended by a query error, another by a completion check that
\* made the notice, and neither has a timer
C17_Witness ==
    \E d, e \in Deliveries :
        /\ out[d].pollError = 1
        /\ ~pollInterval[d]
        /\ Completed(e)
        /\ out[e].complete = 1
        /\ ~pollInterval[e]

\* C18: with a timer that keeps firing while it is set, every session that
\* polls comes to have its timer cancelled, whatever the backend answers and
\* whether it answers; the timer is cancelled at the latest by the tick on
\* which the count exceeds the budget, so a set timer has fired at most
\* maxPolls times and no session runs more than maxPolls + 1 ticks.
C18_SessionsTerminate ==
    /\ \A d \in Deliveries : pollInterval[d] ~> ~pollInterval[d]
    /\ [](\A d \in Deliveries :
            /\ pollInterval[d] => polls[d] <= maxPolls
            /\ polls[d] <= maxPolls + 1)

\* a session timed out while none of its state queries was answered
C18_Witness ==
    \E d \in Deliveries :
        /\ polls[d] = maxPolls + 1
        /\ ticks[d].query = maxPolls
        /\ out[d].timeout = 1
        /\ ~pollInterval[d]

\* the request passes Slack's signature scheme with the configured secret
Verified(r) ==
    /\ r.signature.present
    /\ r.timestamp # <<>>
    /\ Fresh(r.time, r.timestamp)
    /\ r.signature = SlackSigns(signingSecret, r.timestamp, r.payload.json)

\* some step of handleEvent has run for d
Handled(d) == exit[d] \notin {"none", "notInvoked"} \/ Running(d)

\* C19: a verified event_callback delivery is answered 200 with an empty
\* body, once; in every state in which a step of its handler has run the
\* response is already sent; and no later step, however it ends, changes or
\* adds a response.
C19_RespondsBeforeHandling ==
    /\ [](\A d \in Deliveries :
            /\ Received(d) /\ Verified(req[d])
                  /\ req[d].payload.type = "event_callback" =>
                      http[d] = <<Response(200, "")>>
            /\ Handled(d) \/ out[d] # NoCalls =>
                  http[d] = <<Response(200, "")>>)
    /\ [][\A d \in Deliveries :
            Received(d) => http'[d] = http[d]]_vars

\* one handler threw and another ended on a failed submission, both after
\* their 200 response
C19_Witness ==
    \E d, e \in Deliveries :
        /\ exit[d] = "threw"
        /\ exit[e] = "submitFailed"
        /\ http[d] = <<Response(200, "")>>
        /\ http[e] = <<Response(200, "")>>

\* C20: a delivery never gets a second response; a handler that threw has
\* ended, its delivery answered 200 and nothing else; a failed
\* acknowledgment post ends the handler without a further call; a failed
\* submission is turned into the error notice of handleEvent; a failed
\* state query is turned into the error notice of the callback; and none of
\* these steps touches a response.
C20_FailuresAreContained ==
    /\ [](\A d \in Deliveries :
            /\ Len(http[d]) <= 1
            /\ exit[d] = "threw" =>
                  /\ pc[d] = "done"
                  /\ http[d] = <<Response(200, "")>>
                  /\ Silent(d))
    /\ [][\A d \in Deliveries :
            /\ \A a \in AckResponses :
                  AckFailed(a) /\ AckDone(d, a) =>
                      /\ exit'[d] = "ackFailed"
                      /\ pc'[d] = "done"
                      /\ out'[d] = out[d]
                      /\ http' = http
            /\ \A s \in {"status", "transport"} :
                  SubmitDone(d, s) =>
                      /\ out'[d] = updateMessage(out[d], d, "submitError")
                      /\ http' = http
            /\ \A q \in QueryResponses :
                  ~q.ok /\ QueryDone(d, q) =>
                      /\ out'[d] = updateMessage(out[d], d, "pollError")
                      /\ http' = http]_vars

\* a handler threw, and a state query of another delivery failed
C20_Witness ==
    \E d, e \in Deliveries :
        /\ exit[d] = "threw"
        /\ Len(http[d]) = 1
        /\ out[e].pollError = 1
        /\ Len(http[e]) = 1

\* C21: a SlackClient method never throws; when the fetch rejects or the
\* response cannot be read it returns ok=false with the text of the error,
\* and when Slack answers ok=false it returns Slack's answer, with the
\* reason Slack gave.
C21_ClientNeverThrows ==
    vout.state # "pending" =>
        /\ vout.state = "returned"
        /\ vin.outcome.kind \in {"transport", "unreadable"} =>
              /\ vout.value.ok = "false"
              /\ vout.value.error = vin.outcome.text
        /\ vin.outcome.kind = "body" /\ vin.outcome.body.ok = "false" =>
              vout.value = vin.outcome.body

\* postEphemeral returned the failure value for a response it could not read
C21_Witness ==
    /\ vin.method = "postEphemeral"
    /\ vin.outcome.kind = "unreadable"
    /\ vout = [state |-> "returned", value |-> Failure(vin.outcome.text)]

\* a message event past the gate, addressed to the bot, whose text is empty
\* once the mention tokens are removed and the whitespace is trimmed
EmptyRequest(d) ==
    /\ Routed(d)
    /\ EventOf(d).channel_type = "im"
          \/ includes(EventOf(d).text, MentionToken(botUserId))
    /\ trim(removeAll(EventOf(d).text, MentionToken(botUserId), 1)) = <<>>

\* C22: a delivery whose extracted text is empty makes one call, the
\* ephemeral notice, and no other: no public post, no acknowledgment, no
\* submission, no timer.
C22_EmptyTextGetsEphemeralNotice ==
    \A d \in Deliveries :
        EmptyRequest(d) =>
            /\ out[d] = [NoCalls EXCEPT !.ephemeral = 1]
            /\ ~pollInterval[d]

\* C23: a delivery whose acknowledgment post has returned without ok, or
\* without a message timestamp, has ended; the acknowledgment post is the
\* one call it made: no submission, no update, no timer.
C23_AckFailureStops ==
    \A d \in Deliveries :
        out[d].ackPost > 0 /\ pc[d] # "ack"
          /\ (~ack[d].ok \/ ~ack[d].ts) =>
            /\ pc[d] = "done"
            /\ exit[d] = "ackFailed"
            /\ out[d] = [NoCalls EXCEPT !.ackPost = 1]
            /\ ~pollInterval[d]
            /\ InFlight(d) = 0

\* an acknowledgment post returned ok without a message timestamp, and the
\* delivery stopped
C23_Witness ==
    \E d \in Deliveries :
        /\ exit[d] = "ackFailed"
        /\ ack[d] = [ok |-> TRUE, ts |-> FALSE]
        /\ out[d].submit = 0

\* the request is a verified handshake that carries a challenge
Handshake(r) ==
    /\ Verified(r)
    /\ r.payload.type = "url_verification"
    /\ r.payload.challenge # ""

\* C24: a verified url_verification delivery that carries a challenge is
\* answered 200 with that challenge, once; the event handler is not called
\* for it: it makes no call, starts no timer, and the step that answers it
\* leaves the in-flight set as it was.
C24_HandshakeEchoed ==
    /\ [](\A d \in Deliveries :
            Received(d) /\ Handshake(req[d]) =>
                /\ http[d] = <<Response(200, req[d].payload.challenge)>>
                /\ exit[d] = "notInvoked"
                /\ pc[d] = "done"
                /\ Silent(d))
    /\ [][\A d \in Deliveries :
            pc[d] = "idle" /\ Received(d)' /\ Handshake(req'[d]) =>
                processingMessages' = processingMessages]_vars

\* handshakes with two different challenges were answered, each with its
\* own
C24_Witness ==
    \E d, e \in Deliveries :
        /\ Handshake(req[d]) /\ Handshake(req[e])
        /\ http[d] = <<Response(200, "c1")>>
        /\ http[e] = <<Response(200, "c2")>>

RECURSIVE OnlyMentionsAndBlanks(_, _)
OnlyMentionsAndBlanks(text, tok) ==
    \/ text = <<>>
    \/ Head(text) = " " /\ OnlyMentionsAndBlanks(Tail(text), tok)
    \/ /\ StartsAt(text, tok, 1)
       /\ OnlyMentionsAndBlanks(SubSeq(text, Len(tok) + 1, Len(text)), tok)

\* C25: the mention followed by a word yields the word; a text of mention
\* tokens and blanks yields the empty text; and the result never contains
\* the bot's mention token.
C25_ResultWithoutMention ==
    vout.state = "returned" =>
        LET tok == MentionToken(vin.userId)
        IN  /\ vin.text = tok \o <<" ">> \o <<"h", "i">> =>
                  vout.value = <<"h", "i">>
            /\ OnlyMentionsAndBlanks(vin.text, tok) => vout.value = <<>>
            /\ ~includes(vout.value, tok)

\* a step of a callback of the timer of d
SessionStep(d) ==
    \/ Tick(d)
    \/ \E q \in QueryResponses : QueryDone(d, q)
    \/ \E f \in BOOLEAN : RelayDone(d, f)

\* C26: a step of a callback of one session leaves the tick count, the
\* recorded history length, the timer, the message handle, the suspended
\* callbacks and the calls of every other delivery as they were; and when
\* the state query of one session has failed, every other session that
\* polls still comes to have its timer cancelled.
C26_SessionsIndependent ==
    /\ [][\A d, e \in Deliveries :
            d # e /\ SessionStep(d) =>
                /\ polls'[e] = polls[e]
                /\ lastMessageCount'[e] = lastMessageCount[e]
                /\ pollInterval'[e] = pollInterval[e]
                /\ ack'[e] = ack[e]
                /\ ticks'[e] = ticks[e]
                /\ out'[e] = out[e]]_vars
    /\ \A d, e \in Deliveries :
          (d # e /\ out[d].pollError > 0 /\ pollInterval[e])
              ~> ~pollInterval[e]

\* the state query of one session failed, and another session went on to
\* its timeout
C26_Witness ==
    \E d, e \in Deliveries :
        /\ out[d].pollError = 1
        /\ polls[d] = 1
        /\ out[e].timeout = 1
        /\ polls[e] = maxPolls + 1

\* C27: resolveCommand never returns null; it returns the path
\* findCommandPath found when it found one, and the command as it was given
\* otherwise: so an absolute path comes back as it is whether or not the
\* file exists, and a name that nothing finds comes back as the name.
C27_ResolvedOrOriginal ==
    vout.state = "returned" =>
        LET found == findCommandPath(vin.command, vin)
        IN  /\ ~vout.value.null
            /\ ~found.null => vout.value.path = found.path
            /\ found.null => vout.value.path = vin.command
            /\ isAbsolute(vin.command) => vout.value.path = vin.command
            /\ vin.exists = {} => vout.value.path = vin.command

\* on Windows `where` failed and the command was found among the usual
\* places; and the result is that place
C27_Witness ==
    /\ vout.state = "returned"
    /\ vin.command = "npx"
    /\ vin.win32
    /\ vin.exec.threw
    /\ vin.exists = {"w2", "w5"}
    /\ vout.value = Path("w2")

\* the steps the call reaches if none throws
Reached(method, ready) ==
    {"importSession", "isReady"}
        \cup (IF method = "resetForNewSession"
              THEN {"clearSession"}
                     \cup (IF "CHAT_HISTORY" \in ready
                           THEN {"clearChatHistory"} ELSE {})
              ELSE {"saveSession"})
        \cup (IF ready \cap (IF method = "resetForNewSession"
                              THEN {"CHAT_HISTORY", "MCP", "FILE_INDEX"}
                              ELSE {"MCP", "STORAGE_SYNC"}) # {}
              THEN {"importServices"} ELSE {})

\* C28: a call of resetForNewSession or cleanup returns, whichever step
\* throws; an error is logged exactly when a step the call reaches throws;
\* and when none does, every step the call reaches is done.
C28_LifecycleNeverThrows ==
    vout.state # "pending" =>
        /\ vout.state = "returned"
        /\ vout.logged <=> vin.fail \in Reached(vin.method, vin.ready)
        /\ vin.fail \notin vout.done
        /\ ~vout.logged => vout.done = Reached(vin.method, vin.ready)

\* clearing the chat history threw after the session manager was cleared,
\* and the call returned
C28_Witness ==
    /\ vin.method = "resetForNewSession"
    /\ vin.fail = "clearChatHistory"
    /\ vout.state = "returned"
    /\ vout.logged
    /\ "clearSession" \in vout.done

\* C29: once the timer of a session is cancelled, no callback of the
\* session makes an update.
C29_NoUpdateAfterCancel ==
    [][\A d \in Deliveries :
          out[d].timer > 0 /\ ~pollInterval[d] =>
              PollingUpdates(d)' = PollingUpdates(d)]_vars

\* C30: the recorded history length of a session changes only in a step
\* that relays assistant content.
C30_LengthRecordedOnRelayOnly ==
    [][\A d \in Deliveries :
          lastMessageCount'[d] # lastMessageCount[d] =>
              out'[d].relay = out[d].relay + 1]_vars

\* C31: a session issues at most maxPolls state queries.  A step that counts
\* a tick counts one; a step that issues a state query or makes the timeout
\* notice is a tick; a tick whose count is within the budget issues one state
\* query and leaves the timer set; the tick whose count exceeds the budget
\* issues no query, cancels the timer and makes the timeout notice.
C31_QueryBudget ==
    /\ [](\A d \in Deliveries :
             /\ out[d].query <= maxPolls
             /\ polls[d] <= maxPolls + 1
             /\ out[d].timeout <= 1)
    /\ [][\A d \in Deliveries :
             /\ (\/ out'[d].query # out[d].query
                 \/ out'[d].timeout # out[d].timeout
                 \/ polls'[d] # polls[d])
                   => polls'[d] = polls[d] + 1
             /\ polls'[d] = polls[d] + 1 /\ polls'[d] <= maxPolls
                   => /\ out'[d].query = out[d].query + 1
                      /\ out'[d].timeout = out[d].timeout
                      /\ pollInterval'[d]
                      /\ PollingUpdates(d)' = PollingUpdates(d)
             /\ polls'[d] = polls[d] + 1 /\ polls'[d] > maxPolls
                   => /\ out'[d].query = out[d].query
                      /\ ticks'[d] = ticks[d]
                      /\ out'[d].timeout = out[d].timeout + 1
                      /\ ~pollInterval'[d]]_vars

\* a session has timed out while a state query of an earlier tick is still
\* outstanding
C31_Witness ==
    \E d \in Deliveries :
        /\ polls[d] = maxPolls + 1
        /\ out[d].query = maxPolls
        /\ out[d].timeout = 1
        /\ ticks[d].query > 0
        /\ ~pollInterval[d]

\* C32: with a backend whose history holds one assistant entry before any
\* submission and never grows, no session relays anything.
C32_RelaysOnlyNewEntries ==
    \A d \in Deliveries : out[d].relay = 0

\* C33: every updateMessage call made for a delivery was sent to the channel
\* of the delivery and to the timestamp its own acknowledgment post returned,
\* and one was returned; none was sent to the message acknowledged for
\* another delivery.
C33_UpdatesOwnMessage ==
    \A d \in Deliveries :
        /\ out[d].targets # {} => ack[d].ok /\ ack[d].ts
        /\ out[d].targets \subseteq {[channel |-> EventOf(d).channel, ts |-> d]}
        /\ \A e \in Deliveries \ {d} :
              \A t \in out[d].targets : t.ts # AckTs(e)

\* two sessions in different channels have both been acknowledged and
\* queued, and the callbacks of both have made an update
C33_Witness ==
    \E d, e \in Deliveries :
        /\ d < e
        /\ EventOf(d).channel # EventOf(e).channel
        /\ out[d].queued = 1 /\ out[e].queued = 1
        /\ PollingUpdates(d) > 0 /\ PollingUpdates(e) > 0
        /\ out[d].targets # {} /\ out[e].targets # {}

\* the statuses handleSlackWebhook responds with
Statuses == {200, 400, 401, 500}

\* C34: a delivery that was received has been sent one response, with one of
\* the statuses of the handler, whichever path the handler took and also
\* when the event handler threw; a delivery not yet received has been sent
\* none; and no step adds a response to a delivery that was received, or
\* changes the one it has.
C34_OneResponsePerRequest ==
    /\ [](\A d \in Deliveries :
             /\ ~Received(d) => http[d] = <<>>
             /\ Received(d) =>
                   /\ Len(http[d]) = 1
                   /\ http[d][1].status \in Statuses
                   /\ exit[d] = "threw" => http[d][1].status = 200)
    /\ [][\A d \in Deliveries :
             /\ Len(http'[d]) <= Len(http[d]) + 1
             /\ Len(http[d]) = 1 => http'[d] = http[d]]_vars

\* one delivery was answered 500 because the signature check threw, and the
\* event handler of another threw after its 200 response
C34_Witness ==
    \E d, e \in Deliveries :
        /\ http[d] = <<Response(500, "Internal server error")>>
        /\ exit[d] = "notInvoked"
        /\ exit[e] = "threw"
        /\ Len(http[e]) = 1

====
